---- MODULE Spec2Model ----
(***************************************************************************)
(* Model of the belly-buzz ingestion core:                                 *)
(*   - RestaurantExtractor (etl/llm/extractor.py): rate limiting, retry    *)
(*     loop of _call_groq, process_content;                                *)
(*   - the store writes of etl/ingest.py (upsert_restaurant,               *)
(*     upsert_mention, run_pipeline) and of etl/scrape_custom_links.py.    *)
(* Time is counted in whole seconds.                                       *)
(***************************************************************************)
EXTENDS Integers, Sequences, FiniteSets, TLC

VARIABLES
    \* ---- RestaurantExtractor ----
    hasClient,          \* self.client is not None
    now,                \* time.time()
    last_request_time,  \* self.last_request_time
    gpc,                \* position inside _call_groq
    attempt,            \* loop variable of _call_groq
    outcomes,           \* outcomes of the API calls of this invocation
    backoffs,           \* per retry of this invocation: its cause and wait
    gresult,            \* value returned by _call_groq
    callStart,          \* start time of the API call in flight / last made
    prevStart,          \* start time of the API call before that
    prevEnd,            \* end time of the API call before that
    ppc,                \* position inside process_content
    nRest,              \* len(restaurants) in process_content
    sentiment,          \* sentiment in process_content
    sentInvoked,        \* analyze_sentiment invocations for this item
    items,              \* content items handed to process_content so far
    \* ---- the store ----
    nameUnique,         \* schema: restaurants.name carries a unique constraint
    restaurants,        \* table restaurants; a row's id is its index
    social_mentions,    \* table social_mentions, keyed by source_url
    restaurant_metrics, \* table restaurant_metrics, keyed by restaurant_id
    \* ---- a caller of upsert_restaurant ----
    calls,              \* upsert_restaurant calls made so far
    lastCall,           \* the last upsert_restaurant call and its result
    \* ---- scrape_custom_links.main ----
    cpc,                \* position inside main
    item,               \* index of the content item being grouped
    queue,              \* the dict queue, in insertion order
    triples,            \* (name, place, mention) triples in processing order
    pass,               \* which run of the store step this is
    gi,                 \* index of the group being stored
    res_id,             \* res_id of main
    mi,                 \* index of the mention being stored
    resIds,             \* per group visited in this pass: its res_id, or NoId
    written,            \* metrics and mention writes of this pass
    failures,           \* store calls that raised or returned no data
    snapshot,           \* the tables after the first run of the store step
    \* ---- ingest.run_pipeline ----
    rpc,                \* position inside run_pipeline
    run,                \* which run of the pipeline this is
    ritem,              \* index of the content item being processed
    rexts,              \* extracted restaurants handled so far in this run
    restaurant_mentions,\* the dict restaurant_mentions, in insertion order
    rg,                 \* index of the restaurant being stored
    rm,                 \* index of the mention being stored
    restaurant_id,      \* restaurant_id of run_pipeline
    enriched,           \* per restaurant handled in this run: its place or None
    wrote,              \* ids of the rows the last upsert_restaurant wrote
    attached,           \* mention writes of this run: id used, ids written
    pfailures,          \* store calls of run_pipeline that failed in transit
    errors,             \* len(stats.errors)
    stored,             \* stats.stored
    iraised,            \* content items whose try body raised
    rraised,            \* restaurants whose try body raised
    rrejected,          \* restaurants whose upsert_restaurant returned False
    \* ---- two overlapping runs calling upsert_restaurant ----
    upc,                \* per run: position inside upsert_restaurant
    uarg,               \* per run: the restaurant being stored
    uexisting,          \* per run: existing.data was non-empty
    ucalls,             \* per run: calls completed
    lost,               \* calls without a place id that returned False
    \* ---- a batch of mention records being converted ----
    batch,              \* the records: TRUE well-formed, FALSE malformed
    bmode,              \* which loop converts them
    bk,                 \* index of the record being converted
    built,              \* indices of the mentions produced
    bpc,                \* position of the loop
    \* ---- etl/scoring.py ----
    smentions,          \* the mention list being scored
    google_rating,      \* restaurant.google_rating
    scores,             \* what update_restaurant_scores set for smentions
    prevScores,         \* the same for smentions without its last mention
    metrics,            \* the metrics scrape_custom_links builds for them
    origin,             \* per scraped mention: what its source supplied
    buzzIn,             \* arguments of a calculate_buzz_score call
    buzzOut,            \* its result
    \* ---- the validators of shared/models/mention.py ----
    normIn,             \* the raw value handed to a field of SocialMention
    normOut             \* what validation made of it

extractorVars == <<hasClient, now, last_request_time, gpc, attempt, outcomes,
                   backoffs, gresult, callStart, prevStart, prevEnd, ppc, nRest,
                   sentiment, sentInvoked, items>>

storeVars == <<nameUnique, restaurants, social_mentions, restaurant_metrics>>

callerVars == <<calls, lastCall>>

customVars == <<cpc, item, queue, triples, pass, gi, res_id, mi,
                resIds, written, failures, snapshot>>

pipeStats == <<errors, stored, iraised, rraised, rrejected>>

pipeVars == <<rpc, run, ritem, rexts, restaurant_mentions, rg, rm,
              restaurant_id, enriched, wrote, attached, pfailures, pipeStats>>

concVars == <<upc, uarg, uexisting, ucalls, lost>>

batchVars == <<batch, bmode, bk, built, bpc>>

scoreVars == <<smentions, google_rating, scores, prevScores, metrics,
               origin>>

buzzVars == <<buzzIn, buzzOut>>

normVars == <<normIn, normOut>>

pureVars == <<batchVars, scoreVars, buzzVars, normVars>>

vars == <<extractorVars, storeVars, callerVars, customVars, pipeVars,
          concVars, pureVars>>

\* what the actions of one component leave alone
notExtractorVars == <<storeVars, callerVars, customVars, pipeVars, concVars,
                      pureVars>>
notCallerVars == <<extractorVars, customVars, pipeVars, concVars, pureVars>>
notCustomVars == <<extractorVars, callerVars, pipeVars, concVars, pureVars>>
notPipeVars == <<extractorVars, callerVars, customVars, concVars, pureVars>>
notConcVars == <<extractorVars, callerVars, customVars, pipeVars, pureVars>>
notBatchVars == <<extractorVars, storeVars, callerVars, customVars, pipeVars,
                  concVars, scoreVars, buzzVars, normVars>>
notScoreVars == <<extractorVars, storeVars, callerVars, customVars, pipeVars,
                  concVars, batchVars, buzzVars, normVars>>
notBuzzVars == <<extractorVars, storeVars, callerVars, customVars, pipeVars,
                 concVars, batchVars, scoreVars, normVars>>
notNormVars == <<extractorVars, storeVars, callerVars, customVars, pipeVars,
                 concVars, batchVars, scoreVars, buzzVars>>

\* Python None
None == "None"
\* no such API call yet
NoTime == -1

(***************************************************************************)
(* RestaurantExtractor                                                     *)
(***************************************************************************)
min_interval == 3
EmptyBackoff == 1
ErrorBackoff == 5
DefaultRetries == 3

StartTime == 10     \* wall clock when the extractor is constructed
MaxTime == 34       \* the clock is followed up to here
MaxCallDur == 2     \* longest API call
MaxDelay == 1       \* longest pause between two content items
MaxItems == 2       \* content items per run
MaxRest == 1        \* restaurants extracted from one item

Outcome == {"exception", "empty", "content"}

\* RestaurantExtractor.__init__, the client aside
ExtractorNew ==
    /\ now = StartTime
    /\ last_request_time = 0
    /\ gpc = "idle"
    /\ attempt = 0
    /\ outcomes = <<>>
    /\ backoffs = <<>>
    /\ gresult = None
    /\ callStart = NoTime
    /\ prevStart = NoTime
    /\ prevEnd = NoTime
    /\ ppc = "idle"
    /\ nRest = 0
    /\ sentiment = None
    /\ sentInvoked = 0
    /\ items = 0

\* an extractor with or without its API key
ExtractorAny == hasClient \in BOOLEAN /\ ExtractorNew

\* the extractor of a behaviour that follows another component
ExtractorIdle == hasClient = TRUE /\ ExtractorNew

\* process_content, entry: extract_restaurants calls _call_groq
ProcessContent(d) ==
    /\ ppc \in {"idle", "done"}
    /\ items < MaxItems
    /\ now + d <= MaxTime
    /\ now' = now + d
    /\ items' = items + 1
    /\ ppc' = "extract"
    /\ gpc' = "call"
    /\ nRest' = 0
    /\ sentiment' = None
    /\ sentInvoked' = 0
    /\ UNCHANGED notExtractorVars
    /\ UNCHANGED <<hasClient, last_request_time, attempt, outcomes,
                   backoffs, gresult,
                   callStart, prevStart, prevEnd>>

\* _call_groq, entry
CallGroq ==
    /\ gpc = "call"
    /\ attempt' = 0
    /\ outcomes' = <<>>
    /\ backoffs' = <<>>
    /\ IF ~hasClient
         THEN gpc' = "ret" /\ gresult' = None
         ELSE gpc' = "loop" /\ gresult' = "pending"
    /\ UNCHANGED notExtractorVars
    /\ UNCHANGED <<hasClient, now, last_request_time, callStart, prevStart,
                   prevEnd, ppc, nRest, sentiment, sentInvoked, items>>

\* _rate_limit without its sleep
SleepTimeNoWait(t, last) == 0

\* the time _rate_limit sleeps
SleepTime(t, last) ==
    IF t - last < min_interval THEN min_interval - (t - last) ELSE 0

\* _rate_limit stamping last_request_time before it sleeps
RateLimitStampFirst ==
    /\ gpc = "loop"
    /\ attempt < DefaultRetries
    /\ LET woke == now + SleepTime(now, last_request_time) IN
         /\ woke <= MaxTime
         /\ now' = woke
         /\ last_request_time' = now
         /\ callStart' = woke
    /\ gpc' = "api"
    /\ UNCHANGED notExtractorVars
    /\ UNCHANGED <<hasClient, attempt, outcomes,
                   backoffs, gresult, prevStart, prevEnd,
                   ppc, nRest, sentiment, sentInvoked, items>>

\* _rate_limit, followed by the start of the API call
RateLimit ==
    /\ gpc = "loop"
    /\ attempt < DefaultRetries
    /\ LET woke == now + SleepTime(now, last_request_time) IN
         /\ woke <= MaxTime
         /\ now' = woke
         /\ last_request_time' = woke
         /\ callStart' = woke
    /\ gpc' = "api"
    /\ UNCHANGED notExtractorVars
    /\ UNCHANGED <<hasClient, attempt, outcomes,
                   backoffs, gresult, prevStart, prevEnd,
                   ppc, nRest, sentiment, sentInvoked, items>>

\* _call_groq retrying once more than its budget after an exception
AfterCallExtraRetry(o, a) ==
    CASE o = "content" -> <<"ret", "Content", 0>>
      [] o = "empty" ->
            IF a < DefaultRetries - 1 THEN <<"loop", "pending", EmptyBackoff>>
            ELSE <<"ret", "Empty", 0>>
      [] o = "exception" ->
            IF a < DefaultRetries THEN <<"loop", "pending", ErrorBackoff>>
            ELSE <<"ret", None, 0>>

\* what _call_groq does with the outcome o of attempt a:
\* <<next position, returned value, seconds slept before the next attempt>>
AfterCall(o, a) ==
    CASE o = "content" -> <<"ret", "Content", 0>>
      [] o = "empty" ->
            IF a < DefaultRetries - 1 THEN <<"loop", "pending", EmptyBackoff>>
            ELSE <<"ret", "Empty", 0>>
      [] o = "exception" ->
            IF a < DefaultRetries - 1 THEN <<"loop", "pending", ErrorBackoff>>
            ELSE <<"ret", None, 0>>

\* the API call returns or raises after d seconds; _call_groq handles it
ApiCall(o, d) ==
    /\ gpc = "api"
    /\ LET r == AfterCall(o, attempt) IN
         /\ now + d + r[3] <= MaxTime
         /\ now' = now + d + r[3]
         /\ gpc' = r[1]
         /\ gresult' = r[2]
         /\ attempt' = IF r[1] = "loop" THEN attempt + 1 ELSE attempt
    /\ outcomes' = Append(outcomes, o)
    /\ backoffs' = IF AfterCall(o, attempt)[1] = "loop"
                   THEN Append(backoffs, [after |-> o,
                                          slept |-> AfterCall(o, attempt)[3]])
                   ELSE backoffs
    /\ prevStart' = callStart
    /\ prevEnd' = now + d
    /\ UNCHANGED notExtractorVars
    /\ UNCHANGED <<hasClient, last_request_time, callStart, ppc, nRest,
                   sentiment, sentInvoked, items>>

\* process_content without the "if restaurants" short-circuit
RunSentimentAlways(n) == TRUE

\* process_content: restaurants are truthy, so analyze_sentiment runs
RunSentiment(n) == n > 0

\* extract_restaurants returns n restaurants; process_content goes on
ExtractReturn(n) ==
    /\ ppc = "extract"
    /\ gpc = "ret"
    /\ gresult \in {None, "Empty"} => n = 0
    /\ nRest' = n
    /\ IF RunSentiment(n)
         THEN /\ ppc' = "sentiment"
              /\ gpc' = "call"
              /\ sentInvoked' = sentInvoked + 1
         ELSE /\ ppc' = "done"
              /\ gpc' = "idle"
              /\ sentInvoked' = sentInvoked
    /\ sentiment' = None
    /\ UNCHANGED notExtractorVars
    /\ UNCHANGED <<hasClient, now, last_request_time, attempt, outcomes,
                   backoffs,
                   gresult, callStart, prevStart, prevEnd, items>>

\* analyze_sentiment returns; process_content returns
SentimentReturn(parsed) ==
    /\ ppc = "sentiment"
    /\ gpc = "ret"
    /\ gresult \in {None, "Empty"} => ~parsed
    /\ sentiment' = IF parsed THEN "Some" ELSE None
    /\ ppc' = "done"
    /\ gpc' = "idle"
    /\ UNCHANGED notExtractorVars
    /\ UNCHANGED <<hasClient, now, last_request_time, attempt, outcomes,
                   backoffs,
                   gresult, callStart, prevStart, prevEnd, nRest,
                   sentInvoked, items>>

(***************************************************************************)
(* The store (Supabase/PostgREST over PostgreSQL) as the code uses it      *)
(***************************************************************************)
Names == {"A", "B"}          \* restaurant names
Pids == {"P1"}               \* Google place ids
MaxRows == 4                 \* restaurants rows followed

NoId == 0

\* a stored restaurants row:
\*   [name, pid (google_place_id or None), total (total_mentions),
\*    addr (address)]
RowsByName(tbl, n) == {i \in 1..Len(tbl) : tbl[i].name = n}
RowsByPid(tbl, p) == {i \in 1..Len(tbl) : tbl[i].pid = p}

\* the unique constraint on name, when the schema has one, rejects a write
\* that would give row i (0: a new row) a name another row carries
NameClash(tbl, n, i) ==
    nameUnique /\ \E j \in 1..Len(tbl) : j # i /\ tbl[j].name = n

Rejected(tbl) == [ok |-> FALSE, tbl |-> tbl, ids |-> {}]

\* table("restaurants").insert(data).execute()
StoreInsert(tbl, data) ==
    IF NameClash(tbl, data.name, 0)
         \/ (data.pid # None /\ RowsByPid(tbl, data.pid) # {})
    THEN Rejected(tbl)
    ELSE [ok |-> TRUE, tbl |-> Append(tbl, data), ids |-> {Len(tbl) + 1}]

\* table("restaurants").upsert(data, on_conflict="google_place_id").execute()
\* a NULL google_place_id conflicts with no row
StoreUpsertByPid(tbl, data) ==
    IF data.pid = None \/ RowsByPid(tbl, data.pid) = {}
    THEN StoreInsert(tbl, data)
    ELSE LET i == CHOOSE j \in RowsByPid(tbl, data.pid) : TRUE IN
         IF NameClash(tbl, data.name, i) THEN Rejected(tbl)
         ELSE [ok |-> TRUE, tbl |-> [tbl EXCEPT ![i] = data], ids |-> {i}]

\* table("restaurants").update(data).eq("name", n).execute(), where data
\* went through "remove None values": a None pid leaves the column alone,
\* while an address, "" included, is written
StoreUpdateByName(tbl, n, data) ==
    LET hit == RowsByName(tbl, n)
        new(i) == [data EXCEPT !.pid = IF data.pid = None THEN tbl[i].pid
                                       ELSE data.pid]
    IN  [ok |-> TRUE,
         tbl |-> [i \in 1..Len(tbl) |-> IF i \in hit THEN new(i) ELSE tbl[i]],
         ids |-> hit]

\* table("social_mentions").upsert(data, on_conflict="source_url").execute()
\* a row is [url, rid (restaurant_id), name]; a restaurant_id removed from
\* data as None leaves the column of an existing row alone
StoreUpsertMention(tbl, data) ==
    LET old == {m \in tbl : m.url = data.url}
        rid == IF data.rid = NoId /\ old # {}
               THEN (CHOOSE m \in old : TRUE).rid ELSE data.rid
    IN  (tbl \ old) \cup {[data EXCEPT !.rid = rid]}

\* table("restaurant_metrics").upsert(data, on_conflict="restaurant_id")
\* a row is [rid (restaurant_id), total (total_mentions)]
StoreUpsertMetrics(tbl, data) ==
    {m \in tbl : m.rid # data.rid} \cup {data}

NoRows ==
    /\ restaurants = <<>>
    /\ social_mentions = {}
    /\ restaurant_metrics = {}

\* an empty store under either schema
StoreEmpty == nameUnique \in BOOLEAN /\ NoRows

\* the store of a behaviour that does not write
StoreIdle == nameUnique = FALSE /\ NoRows

(***************************************************************************)
(* etl/ingest.py: upsert_restaurant                                        *)
(***************************************************************************)
\* place.get("formatted_address", "") of a place Google Places returned
PlaceAddress(p) == "Addr"

\* address=place_data.address if place_data else ""
PipeAddress(p) == IF p # None THEN PlaceAddress(p) ELSE ""

\* upsert_restaurant inserting without looking for the name first
UpsertRestaurantNoSelect(tbl, r) ==
    IF r.pid # None THEN StoreUpsertByPid(tbl, r) ELSE StoreInsert(tbl, r)

\* upsert_restaurant: the writes it issues; ok is its return value
UpsertRestaurant(tbl, r) ==
    IF r.pid # None
    THEN StoreUpsertByPid(tbl, r)
    ELSE IF RowsByName(tbl, r.name) # {}
         THEN StoreUpdateByName(tbl, r.name, r)
         ELSE StoreInsert(tbl, r)

MaxCalls == 4                \* upsert_restaurant calls per behaviour
MaxTotal == 2                \* largest total_mentions passed in

CallerIdle ==
    /\ calls = 0
    /\ lastCall = [name |-> None, pid |-> None, ok |-> FALSE, before |-> 0]

\* one call upsert_restaurant(supabase, restaurant); fail: the store client
\* raises (transport error), which the except clause turns into False
CallUpsertRestaurant(n, p, t, fail) ==
    /\ calls < MaxCalls
    /\ Len(restaurants) < MaxRows
    /\ LET r == [name |-> n, pid |-> p, total |-> t, addr |-> PipeAddress(p)]
           res == IF fail THEN Rejected(restaurants)
                  ELSE UpsertRestaurant(restaurants, r)
       IN  /\ restaurants' = res.tbl
           /\ lastCall' = [name |-> n, pid |-> p, ok |-> res.ok,
                           before |-> Len(restaurants)]
    /\ calls' = calls + 1
    /\ UNCHANGED <<nameUnique, social_mentions, restaurant_metrics>>
    /\ UNCHANGED notCallerVars

(***************************************************************************)
(* etl/scrape_custom_links.py: main                                        *)
(***************************************************************************)
MaxExtracted == 3            \* restaurants extracted in one run
MaxFailures == 1             \* store calls that fail in transit

\* the name Google Places gives a place
PlaceName(p) == "A"

CustomIdle ==
    /\ cpc = "group"
    /\ item = 1
    /\ queue = <<>>
    /\ triples = <<>>
    /\ pass = 1
    /\ gi = 1
    /\ res_id = NoId
    /\ mi = 1
    /\ resIds = <<>>
    /\ written = {}
    /\ failures = 0
    /\ snapshot = <<>>

\* the grouping key taken to be the extracted name whatever the place
QueueKeyByName(n, p) == n

\* key = place.place_id if place else ext.name
QueueKey(n, p) == IF p # None THEN p ELSE n

KeyIndex(q, k) == {g \in 1..Len(q) : q[g].key = k}

\* one iteration of "for ext in extracted_list": ext.name = n and
\* enricher.find_place(ext.name) returns the place p, or None
CustomExt(n, p) ==
    /\ cpc = "group"
    /\ Len(triples) < MaxExtracted
    /\ LET key == QueueKey(n, p)
           m == [name |-> n, url |-> item, seq |-> Len(triples) + 1]
       IN  /\ queue' =
                IF KeyIndex(queue, key) # {}
                THEN LET g == CHOOSE h \in KeyIndex(queue, key) : TRUE IN
                     [queue EXCEPT ![g].mentions = Append(@, m)]
                ELSE Append(queue, [key |-> key, ext |-> n, place |-> p,
                                    extSeq |-> Len(triples) + 1,
                                    mentions |-> <<m>>])
           /\ triples' = Append(triples, [name |-> n, pid |-> p, url |-> item])
    /\ UNCHANGED <<cpc, item, pass, gi, res_id, mi, resIds, written, failures,
                   snapshot>>
    /\ UNCHANGED storeVars
    /\ UNCHANGED notCustomVars

\* where the store loop stands once group g is finished
NextGroup(q, g) == IF g < Len(q) THEN "store" ELSE "done"

\* "for idx, item in enumerate(all_content)" moves to the next item
CustomNextItem ==
    /\ cpc = "group"
    /\ item < MaxItems
    /\ item' = item + 1
    /\ UNCHANGED <<cpc, queue, triples, pass, gi, res_id, mi, resIds, written,
                   failures, snapshot>>
    /\ UNCHANGED storeVars
    /\ UNCHANGED notCustomVars

\* the grouping loop ends; "for key, data in queue.items()" begins
CustomEndGrouping ==
    /\ cpc = "group"
    /\ item = MaxItems
    /\ cpc' = NextGroup(queue, 0)
    /\ gi' = 1
    /\ UNCHANGED <<item, queue, triples, pass, res_id, mi, resIds,
                   written, failures, snapshot>>
    /\ UNCHANGED storeVars
    /\ UNCHANGED notCustomVars

\* data["ext"] of a group of main, the source of vibe, cuisine_tags and
\* price_hint of its Restaurant: the number of the extraction result
CustomIdentityExt(g) == g.extSeq

\* the Restaurant main builds for a group
CustomRow(g) ==
    [name |-> IF g.place # None THEN PlaceName(g.place) ELSE g.ext,
     pid |-> g.place,
     total |-> 0,
     addr |-> IF g.place # None THEN PlaceAddress(g.place) ELSE "Toronto"]

\* main going on to the metrics although the restaurant upsert failed
AfterRestaurantNoContinue(q, g, ok) == "metrics"

\* where main goes after the restaurant upsert: on, or "continue"
AfterRestaurant(q, g, ok) == IF ok THEN "metrics" ELSE NextGroup(q, g)

\* the restaurant upsert of one group; out: the call raises in transit,
\* returns no data, or reaches the store
CustomStoreRestaurant(out) ==
    /\ cpc = "store"
    /\ LET res == IF out = "raise" THEN Rejected(restaurants)
                  ELSE StoreUpsertByPid(restaurants, CustomRow(queue[gi]))
           ok == res.ok /\ out = "ok"
           id == IF ok THEN CHOOSE i \in res.ids : TRUE ELSE NoId
       IN  /\ restaurants' = res.tbl
           /\ res_id' = IF ok THEN id ELSE res_id
           /\ resIds' = Append(resIds, id)
           /\ cpc' = AfterRestaurant(queue, gi, ok)
           /\ gi' = IF AfterRestaurant(queue, gi, ok) = "metrics"
                    THEN gi ELSE gi + 1
    /\ out # "ok" => failures < MaxFailures
    /\ failures' = failures + (IF out # "ok" THEN 1 ELSE 0)
    /\ mi' = 1
    /\ UNCHANGED <<item, queue, triples, pass, written, snapshot>>
    /\ UNCHANGED <<nameUnique, social_mentions, restaurant_metrics>>
    /\ UNCHANGED notCustomVars

\* the metrics upsert of one group; a failure is logged and main goes on
CustomStoreMetrics(fail) ==
    /\ cpc = "metrics"
    /\ LET data == [rid |-> res_id, total |-> Len(queue[gi].mentions)] IN
         IF fail
         THEN UNCHANGED <<restaurant_metrics, written>>
         ELSE /\ restaurant_metrics' =
                    StoreUpsertMetrics(restaurant_metrics, data)
              /\ written' = written \cup
                    {[g |-> gi, kind |-> "metrics", rid |-> res_id]}
    /\ fail => failures < MaxFailures
    /\ failures' = failures + (IF fail THEN 1 ELSE 0)
    /\ cpc' = "mentions"
    /\ mi' = 1
    /\ UNCHANGED <<item, queue, triples, pass, gi, res_id, resIds,
                   snapshot>>
    /\ UNCHANGED <<nameUnique, restaurants, social_mentions>>
    /\ UNCHANGED notCustomVars

\* one iteration of "for m in mentions"; after the last one, the next group
CustomStoreMention(fail) ==
    /\ cpc = "mentions"
    /\ LET m == queue[gi].mentions[mi]
           data == [url |-> m.url, rid |-> res_id, name |-> m.name]
       IN  IF fail
           THEN UNCHANGED <<social_mentions, written>>
           ELSE /\ social_mentions' = StoreUpsertMention(social_mentions, data)
                /\ written' = written \cup
                      {[g |-> gi, kind |-> "mention", rid |-> res_id]}
    /\ fail => failures < MaxFailures
    /\ failures' = failures + (IF fail THEN 1 ELSE 0)
    /\ IF mi < Len(queue[gi].mentions)
         THEN mi' = mi + 1 /\ UNCHANGED <<cpc, gi>>
         ELSE mi' = 1 /\ cpc' = NextGroup(queue, gi) /\ gi' = gi + 1
    /\ UNCHANGED <<item, queue, triples, pass, res_id, resIds,
                   snapshot>>
    /\ UNCHANGED <<nameUnique, restaurants, restaurant_metrics>>
    /\ UNCHANGED notCustomVars

\* the store step is run again over the same queue
CustomRunAgain ==
    /\ cpc = "done"
    /\ pass = 1
    /\ queue # <<>>
    /\ pass' = pass + 1
    /\ snapshot' = <<restaurants, social_mentions, restaurant_metrics>>
    /\ cpc' = "store"
    /\ gi' = 1
    /\ mi' = 1
    /\ res_id' = NoId
    /\ resIds' = <<>>
    /\ written' = {}
    /\ UNCHANGED <<item, queue, triples, failures>>
    /\ UNCHANGED storeVars
    /\ UNCHANGED notCustomVars

(***************************************************************************)
(* etl/ingest.py: run_pipeline                                             *)
(***************************************************************************)
MaxRuns == 2                 \* runs of the pipeline against one store

PipeIdle ==
    /\ rpc = "extract"
    /\ run = 1
    /\ ritem = 1
    /\ rexts = 0
    /\ restaurant_mentions = <<>>
    /\ rg = 1
    /\ rm = 1
    /\ restaurant_id = NoId
    /\ enriched = <<>>
    /\ wrote = {}
    /\ attached = {}
    /\ pfailures = 0
    /\ errors = 0
    /\ stored = 0
    /\ iraised = {}
    /\ rraised = {}
    /\ rrejected = {}

NameIndex(rmn, n) == {g \in 1..Len(rmn) : rmn[g].name = n}

\* one iteration of "for extracted in restaurants": the mention is built
\* and grouped under extracted.name
PipeExt(n) ==
    /\ rpc = "extract"
    /\ rexts < MaxExtracted
    /\ LET m == [name |-> n, url |-> ritem] IN
         restaurant_mentions' =
            IF NameIndex(restaurant_mentions, n) # {}
            THEN LET g == CHOOSE h \in NameIndex(restaurant_mentions, n) : TRUE
                 IN  [restaurant_mentions EXCEPT ![g].mentions = Append(@, m)]
            ELSE Append(restaurant_mentions,
                        [name |-> n, data |-> ritem, mentions |-> <<m>>])
    /\ rexts' = rexts + 1
    /\ UNCHANGED <<rpc, run, ritem, rg, rm, restaurant_id, enriched, wrote,
                   attached, pfailures>>
    /\ UNCHANGED pipeStats
    /\ UNCHANGED storeVars
    /\ UNCHANGED notPipeVars

\* "for content in all_content" moves to the next item
PipeNextItem ==
    /\ rpc = "extract"
    /\ ritem < MaxItems
    /\ ritem' = ritem + 1
    /\ UNCHANGED <<rpc, run, rexts, restaurant_mentions, rg, rm, restaurant_id,
                   enriched, wrote, attached, pfailures>>
    /\ UNCHANGED pipeStats
    /\ UNCHANGED storeVars
    /\ UNCHANGED notPipeVars

\* the extraction loop ends; "for name, extracted in restaurant_data.items()"
PipeEndExtract ==
    /\ rpc = "extract"
    /\ ritem = MaxItems
    /\ rpc' = NextGroup(restaurant_mentions, 0)
    /\ rg' = 1
    /\ UNCHANGED <<run, ritem, rexts, restaurant_mentions, rm, restaurant_id,
                   enriched, wrote, attached, pfailures>>
    /\ UNCHANGED pipeStats
    /\ UNCHANGED storeVars
    /\ UNCHANGED notPipeVars

\* the exception of item i leaving run_pipeline instead of being caught
AfterItemErrorPropagates(i, rmn) == "raised"

\* where run_pipeline stands after the except clause of item i has run
AfterItemError(i, rmn) ==
    IF i < MaxItems THEN "extract" ELSE NextGroup(rmn, 0)

\* process_content or the construction of a mention raises for the current
\* item: the except clause appends to stats.errors and the loop goes on
PipeItemRaise ==
    /\ rpc = "extract"
    /\ Cardinality(iraised) < MaxFailures
    /\ errors' = errors + 1
    /\ iraised' = iraised \cup {ritem}
    /\ rpc' = AfterItemError(ritem, restaurant_mentions)
    /\ ritem' = IF ritem < MaxItems THEN ritem + 1 ELSE ritem
    /\ rg' = 1
    /\ UNCHANGED <<run, rexts, restaurant_mentions, rm, restaurant_id,
                   enriched, wrote, attached, pfailures, stored, rraised,
                   rrejected>>
    /\ UNCHANGED storeVars
    /\ UNCHANGED notPipeVars

\* restaurant_data[name] of a group of run_pipeline, the source of vibe,
\* cuisine_tags, recommended_dishes and price_hint of its Restaurant: the
\* content item the extraction result came from
PipeIdentityExt(g) == g.data

\* the Restaurant run_pipeline builds for a group whose name enriched to p,
\* after update_restaurant_scores
PipeRow(g, p) ==
    [name |-> IF p # None THEN PlaceName(p) ELSE g.name,
     pid |-> p,
     total |-> Len(g.mentions),
     addr |-> PipeAddress(p)]

\* the ids "select id ... eq(name)" returns for run_pipeline to take
\* data[0] from; the store returns the rows in no fixed order
IdsReRead(tbl, n) == RowsByName(tbl, n)

\* run_pipeline writing the mentions although upsert_restaurant returned
\* False
AfterRejectedNoSkip(rmn, g) == "mentions"

\* where run_pipeline goes when upsert_restaurant returns False: the body of
\* "if upsert_restaurant(...)" is skipped
AfterRejected(rmn, g) == NextGroup(rmn, g)

\* steps 3 to 6 for one restaurant up to the re-read of its id: find_place
\* returns p, the restaurant is built, scored and upserted (fail: the store
\* client raises), and on success its id is read back by name
PipeStoreRestaurant(p, fail) ==
    /\ rpc = "store"
    /\ fail => pfailures < MaxFailures
    /\ LET g == restaurant_mentions[rg]
           r == PipeRow(g, p)
           res == IF fail THEN Rejected(restaurants)
                  ELSE UpsertRestaurant(restaurants, r)
           found == IdsReRead(res.tbl, r.name)
       IN  /\ restaurants' = res.tbl
           /\ wrote' = res.ids
           /\ IF res.ok
              THEN /\ \/ found = {} /\ restaurant_id' = NoId
                      \/ \E i \in found : restaurant_id' = i
                   /\ rpc' = "mentions"
                   /\ rg' = rg
              ELSE /\ restaurant_id' = restaurant_id
                   /\ rpc' = AfterRejected(restaurant_mentions, rg)
                   /\ rg' = IF AfterRejected(restaurant_mentions, rg)
                               = "mentions" THEN rg ELSE rg + 1
           /\ stored' = stored + (IF res.ok THEN 1 ELSE 0)
           /\ rrejected' = IF res.ok THEN rrejected ELSE rrejected \cup {rg}
    /\ enriched' = Append(enriched, p)
    /\ pfailures' = pfailures + (IF fail THEN 1 ELSE 0)
    /\ rm' = 1
    /\ UNCHANGED <<run, ritem, rexts, restaurant_mentions, attached, errors,
                   iraised, rraised>>
    /\ UNCHANGED <<nameUnique, social_mentions, restaurant_metrics>>
    /\ UNCHANGED notPipeVars

\* where run_pipeline stands after the except clause of restaurant g
AfterRestaurantError(rmn, g) == NextGroup(rmn, g)

\* steps 3 to 6 for one restaurant raise: in embedding, building or scoring
\* the restaurant (stage "score", before any write), or in the re-read of
\* the id after upsert_restaurant returned True (stage "reread"); the
\* except clause appends to stats.errors and the loop goes on
PipeRestaurantRaise(p, stage) ==
    /\ rpc = "store"
    /\ pfailures < MaxFailures
    /\ LET g == restaurant_mentions[rg]
           res == IF stage = "score" THEN Rejected(restaurants)
                  ELSE UpsertRestaurant(restaurants, PipeRow(g, p))
       IN  /\ stage = "reread" => res.ok
           /\ restaurants' = res.tbl
           /\ wrote' = res.ids
           /\ stored' = stored + (IF res.ok THEN 1 ELSE 0)
    /\ errors' = errors + 1
    /\ rraised' = rraised \cup {rg}
    /\ enriched' = Append(enriched, p)
    /\ pfailures' = pfailures + 1
    /\ rpc' = AfterRestaurantError(restaurant_mentions, rg)
    /\ rg' = rg + 1
    /\ rm' = 1
    /\ UNCHANGED <<run, ritem, rexts, restaurant_mentions, restaurant_id,
                   attached, iraised, rrejected>>
    /\ UNCHANGED <<nameUnique, social_mentions, restaurant_metrics>>
    /\ UNCHANGED notPipeVars

\* one iteration of "for mention in mentions": upsert_mention (fail: the
\* store client raises and upsert_mention returns False)
PipeStoreMention(fail) ==
    /\ rpc = "mentions"
    /\ fail => pfailures < MaxFailures
    /\ LET g == restaurant_mentions[rg]
           m == g.mentions[rm]
           data == [url |-> m.url, rid |-> restaurant_id, name |-> m.name]
       IN  /\ IF fail
              THEN UNCHANGED <<social_mentions, attached>>
              ELSE /\ social_mentions' =
                         StoreUpsertMention(social_mentions, data)
                   /\ attached' = attached \cup
                         {[rid |-> restaurant_id, wrote |-> wrote, g |-> rg]}
           /\ IF rm < Len(g.mentions)
              THEN rm' = rm + 1 /\ UNCHANGED <<rpc, rg>>
              ELSE /\ rm' = 1
                   /\ rpc' = NextGroup(restaurant_mentions, rg)
                   /\ rg' = rg + 1
    /\ pfailures' = pfailures + (IF fail THEN 1 ELSE 0)
    /\ UNCHANGED <<run, ritem, rexts, restaurant_mentions, restaurant_id,
                   enriched, wrote>>
    /\ UNCHANGED pipeStats
    /\ UNCHANGED <<nameUnique, restaurants, restaurant_metrics>>
    /\ UNCHANGED notPipeVars

\* the scheduled job runs the pipeline again against the same store
PipeRunAgain ==
    /\ rpc = "done"
    /\ run < MaxRuns
    /\ run' = run + 1
    /\ rpc' = "extract"
    /\ ritem' = 1
    /\ rexts' = 0
    /\ restaurant_mentions' = <<>>
    /\ rg' = 1
    /\ rm' = 1
    /\ restaurant_id' = NoId
    /\ enriched' = <<>>
    /\ wrote' = {}
    /\ attached' = {}
    /\ errors' = 0
    /\ stored' = 0
    /\ iraised' = {}
    /\ rraised' = {}
    /\ rrejected' = {}
    /\ UNCHANGED pfailures
    /\ UNCHANGED storeVars
    /\ UNCHANGED notPipeVars

(***************************************************************************)
(* etl/ingest.py: upsert_restaurant called by two overlapping runs, for    *)
(* restaurants without a google_place_id                                   *)
(***************************************************************************)
Runs == {1, 2}
MaxUpserts == 2              \* upsert_restaurant calls per run

ConcIdle ==
    /\ upc = [p \in Runs |-> "idle"]
    /\ uarg = [p \in Runs |-> [name |-> None, pid |-> None, total |-> 0,
                              addr |-> ""]]
    /\ uexisting = [p \in Runs |-> FALSE]
    /\ ucalls = [p \in Runs |-> 0]
    /\ lost = {}

\* run p calls upsert_restaurant for a restaurant find_place did not find
ConcCall(p, n, t) ==
    /\ upc[p] = "idle"
    /\ ucalls[p] < MaxUpserts
    /\ uarg' = [uarg EXCEPT ![p] = [name |-> n, pid |-> None, total |-> t,
                                     addr |-> PipeAddress(None)]]
    /\ upc' = [upc EXCEPT ![p] = "called"]
    /\ UNCHANGED <<uexisting, ucalls, lost>>
    /\ UNCHANGED storeVars
    /\ UNCHANGED notConcVars

\* no google_place_id: existing = select("id").eq("name", ...)
ConcSelect(p) ==
    /\ upc[p] = "called"
    /\ uarg[p].pid = None
    /\ uexisting' = [uexisting EXCEPT ![p] =
                        RowsByName(restaurants, uarg[p].name) # {}]
    /\ upc' = [upc EXCEPT ![p] = "selected"]
    /\ UNCHANGED <<uarg, ucalls, lost>>
    /\ UNCHANGED storeVars
    /\ UNCHANGED notConcVars

\* "if existing.data" update, else insert; a rejected write returns False
ConcWrite(p) ==
    /\ upc[p] = "selected"
    /\ LET res == IF uexisting[p]
                  THEN StoreUpdateByName(restaurants, uarg[p].name, uarg[p])
                  ELSE StoreInsert(restaurants, uarg[p])
       IN  /\ restaurants' = res.tbl
           /\ lost' = IF res.ok THEN lost
                      ELSE lost \cup {[run |-> p, name |-> uarg[p].name]}
    /\ upc' = [upc EXCEPT ![p] = "idle"]
    /\ ucalls' = [ucalls EXCEPT ![p] = @ + 1]
    /\ UNCHANGED <<uarg, uexisting>>
    /\ UNCHANGED <<nameUnique, social_mentions, restaurant_metrics>>
    /\ UNCHANGED notConcVars

(***************************************************************************)
(* etl/ingest.py: the two loops that build SocialMention objects           *)
(***************************************************************************)
MaxBatch == 4                \* records in one batch

RECURSIVE Batches(_)
\* the batches of at most n records
Batches(n) ==
    IF n = 0 THEN {<<>>}
    ELSE Batches(n - 1) \cup
         {Append(b, w) : b \in {c \in Batches(n - 1) : Len(c) = n - 1},
                         w \in BOOLEAN}

BatchIdle ==
    /\ batch = <<>>
    /\ bmode = "item"
    /\ bk = 1
    /\ built = <<>>
    /\ bpc = "done"

\* a batch handed to one of the two loops: the extracted restaurants of one
\* content item (run_pipeline), or the rows of one select
\* (get_mentions_for_restaurant)
BatchAny ==
    /\ batch \in Batches(MaxBatch)
    /\ bmode \in {"item", "rows"}
    /\ bk = 1
    /\ built = <<>>
    /\ bpc = "run"

\* run_pipeline, one iteration of "for extracted in restaurants" inside the
\* try statement of the content item: SocialMention(...) validates and the
\* mention is appended, or raises and the except clause outside the for loop
\* ends the item; the loop ends when the records are used up
ItemMentionStep ==
    /\ bmode = "item"
    /\ bpc = "run"
    /\ IF bk > Len(batch)
       THEN bpc' = "done" /\ UNCHANGED <<bk, built>>
       ELSE IF batch[bk]
            THEN built' = Append(built, bk) /\ bk' = bk + 1 /\ UNCHANGED bpc
            ELSE bpc' = "done" /\ UNCHANGED <<bk, built>>
    /\ UNCHANGED <<batch, bmode>>
    /\ UNCHANGED notBatchVars

\* get_mentions_for_restaurant, one iteration of "for row in result.data"
\* inside the try statement of the function: the row converts and is
\* appended, or raises and the except clause returns []
RowMentionStep ==
    /\ bmode = "rows"
    /\ bpc = "run"
    /\ IF bk > Len(batch)
       THEN bpc' = "done" /\ UNCHANGED <<bk, built>>
       ELSE IF batch[bk]
            THEN built' = Append(built, bk) /\ bk' = bk + 1 /\ UNCHANGED bpc
            ELSE built' = <<>> /\ bpc' = "done" /\ UNCHANGED bk
    /\ UNCHANGED <<batch, bmode>>
    /\ UNCHANGED notBatchVars


(***************************************************************************)
(* etl/scoring.py.  Scores are fixed-point integers: sentiment values in   *)
(* tenths, ratings in tenths, viral and sentiment scores in hundredths,    *)
(* the buzz score in tenths, ages in whole days (negative: posted_at in    *)
(* the future).  round() is modelled as rounding to the nearest unit.      *)
(***************************************************************************)
MaxMentions == 2             \* mentions in the list being scored

Min(a, b) == IF a <= b THEN a ELSE b
Max(a, b) == IF a >= b THEN a ELSE b

\* round(n / d) for n >= 0, d > 0
RoundDiv(n, d) == (2 * n + d) \div (2 * d)

RECURSIVE SeqSum(_)
SeqSum(q) == IF q = <<>> THEN 0 ELSE Head(q) + SeqSum(Tail(q))

\* math.log1p(x) in thousandths, for the arguments the model uses
Log1pMilli(x) ==
    CASE x = 0 -> 0
      [] x = 1 -> 693
      [] x = 2 -> 1099
      [] x = 3 -> 1386
      [] x = 4 -> 1609
      [] x = 5 -> 1792
      [] x = 54 -> 4007
      [] x = 100 -> 4615
      [] x = 30000 -> 10309

\* SOURCE_CREDIBILITY.get(source_type, 0.5), in tenths
Credibility(src) ==
    CASE src = "eater" -> 10
      [] src = "blogto" -> 9
      [] src = "reddit" -> 7
      [] OTHER -> 5

ProSources == {"eater", "blogto", "toronto_life"}

\* a scraped content item with the result of its sentiment analysis:
\* analysed is FALSE when process_content returned no sentiment
Content(r, c, an, s, hp, a, src) ==
    [r |-> r, c |-> c, analysed |-> an, sent |-> s, hasPosted |-> hp,
     age |-> a, src |-> src]

\* the SocialMention run_pipeline builds from a content item:
\* sentiment_score=sentiment.overall_score if sentiment else None
PipeMention(ct) ==
    [r |-> ct.r, c |-> ct.c, hasSent |-> ct.analysed,
     sent |-> IF ct.analysed THEN ct.sent ELSE 0,
     hasPosted |-> ct.hasPosted, age |-> ct.age, src |-> ct.src,
     analysed |-> ct.analysed, by |-> "pipeline"]

\* the SocialMention scrape_custom_links.main builds from a content item:
\* sentiment_score=sentiment.overall_score if sentiment else 0.0
CustomMention(ct) ==
    [r |-> ct.r, c |-> ct.c, hasSent |-> TRUE,
     sent |-> IF ct.analysed THEN ct.sent ELSE 0,
     hasPosted |-> ct.hasPosted, age |-> ct.age, src |-> ct.src,
     analysed |-> ct.analysed, by |-> "custom"]

\* recency_factor * 5 * VIRAL_WEIGHTS["recency"] of one mention, in 1/10000;
\* nothing is added for a mention without posted_at
RecencyComponent(m) ==
    IF m.hasPosted THEN Max(0, ((30 - m.age) * 10000) \div 30) ELSE 0

\* the contribution of one mention with the upvote component capped at 10
\* instead of 5
MentionViralLooseCap(m) ==
    (IF m.r # 0 THEN Min((Log1pMilli(m.r) * 3) \div 2, 30000) ELSE 0)
    + (IF m.c # 0 THEN Min(Log1pMilli(m.c) * 2, 15000) ELSE 0)
    + RecencyComponent(m)
    + (IF m.r # 0 /\ m.c # 0
       THEN Min((m.c * 20000) \div Max(m.r, 1), 10000) ELSE 0)

\* the contribution of one mention to total_score, in 1/10000
MentionViral(m) ==
    (IF m.r # 0 THEN Min((Log1pMilli(m.r) * 3) \div 2, 15000) ELSE 0)
    + (IF m.c # 0 THEN Min(Log1pMilli(m.c) * 2, 15000) ELSE 0)
    + RecencyComponent(m)
    + (IF m.r # 0 /\ m.c # 0
       THEN Min((m.c * 20000) \div Max(m.r, 1), 10000) ELSE 0)

\* calculate_viral_score without its final cap
calculate_viral_score_uncapped(ms) ==
    IF ms = <<>> THEN 0
    ELSE RoundDiv(SeqSum([i \in 1..Len(ms) |-> MentionViral(ms[i])]),
                  Len(ms) * 100)

\* calculate_viral_score, in hundredths
calculate_viral_score(ms) ==
    IF ms = <<>> THEN 0
    ELSE Min(RoundDiv(SeqSum([i \in 1..Len(ms) |-> MentionViral(ms[i])]),
                      Len(ms) * 100),
             1000)

\* calculate_sentiment_score dividing by the number of rated mentions
\* instead of by the sum of their weights
calculate_sentiment_score_by_count(ms) ==
    LET rated == SelectSeq(ms, LAMBDA m : m.hasSent)
        weighted_sum == SeqSum([i \in 1..Len(rated) |->
                          (rated[i].sent + 10) * 50 * Credibility(rated[i].src)])
    IN  IF ms = <<>> \/ rated = <<>> THEN 500
        ELSE RoundDiv(weighted_sum, Len(rated))

\* calculate_sentiment_score, in hundredths
calculate_sentiment_score(ms) ==
    LET rated == SelectSeq(ms, LAMBDA m : m.hasSent)
        weighted_sum == SeqSum([i \in 1..Len(rated) |->
                          (rated[i].sent + 10) * 50 * Credibility(rated[i].src)])
        weight_total == SeqSum([i \in 1..Len(rated) |->
                          Credibility(rated[i].src)])
    IN  IF ms = <<>> \/ weight_total = 0 THEN 500
        ELSE RoundDiv(weighted_sum, weight_total)

\* calculate_pro_score, in whole points
calculate_pro_score(ms) ==
    LET pro_mentions == SelectSeq(ms, LAMBDA m : m.src \in ProSources)
        bonus == Len(SelectSeq(pro_mentions,
                               LAMBDA m : m.hasSent /\ m.sent > 5))
    IN  IF pro_mentions = <<>> THEN 0
        ELSE Min(Min(Len(pro_mentions) * 2, 5) + Min(bonus, 5), 10)

\* google_component, in tenths: (google_rating * 2) if google_rating else 5.0
GoogleComponent(rating) ==
    IF rating.has /\ rating.val # 0 THEN rating.val * 2 ELSE 50

\* calculate_buzz_score, in tenths; sentiment and viral in hundredths
calculate_buzz_score(sentiment_score, viral_score, pro_score, total_mentions, rating) ==
    LET mentions_component ==
            Min((Log1pMilli(total_mentions) * 5) \div 2, 10000)
        buzz_scaled == sentiment_score * 70 + viral_score * 50
                       + mentions_component * 4 + pro_score * 2000
                       + GoogleComponent(rating) * 200
    IN  RoundDiv(Min(buzz_scaled, 200000), 1000)

\* calculate_all_scores counting only the mentions that carry a sentiment
calculate_all_scores_rated_total(ms, rating) ==
    [sentiment |-> calculate_sentiment_score(ms),
     viral |-> calculate_viral_score(ms),
     pro |-> calculate_pro_score(ms),
     total |-> Len(SelectSeq(ms, LAMBDA m : m.hasSent)),
     buzz |-> calculate_buzz_score(calculate_sentiment_score(ms),
                                   calculate_viral_score(ms),
                                   calculate_pro_score(ms), Len(ms), rating)]

\* calculate_all_scores
calculate_all_scores(ms, rating) ==
    [sentiment |-> calculate_sentiment_score(ms),
     viral |-> calculate_viral_score(ms),
     pro |-> calculate_pro_score(ms),
     total |-> Len(ms),
     buzz |-> calculate_buzz_score(calculate_sentiment_score(ms),
                                   calculate_viral_score(ms),
                                   calculate_pro_score(ms), Len(ms), rating)]

\* the mentions update_restaurant_scores counts as recent
recent_mentions(ms) == SelectSeq(ms, LAMBDA m : m.hasPosted /\ m.age < 7)

\* restaurant.is_trending of update_restaurant_scores
IsTrending(ms, viral) == Len(recent_mentions(ms)) >= 2 /\ viral > 500

\* update_restaurant_scores: the score fields it sets on the restaurant
update_restaurant_scores(ms, rating) ==
    [sentiment |-> calculate_all_scores(ms, rating).sentiment,
     viral |-> calculate_all_scores(ms, rating).viral,
     pro |-> calculate_all_scores(ms, rating).pro,
     total |-> calculate_all_scores(ms, rating).total,
     buzz |-> calculate_all_scores(ms, rating).buzz,
     trending |-> IsTrending(ms, calculate_all_scores(ms, rating).viral)]

\* metrics_data of scrape_custom_links.main for a group with mentions ms
CustomMetrics(ms) == [total |-> Len(ms), trending |-> Len(ms) >= 2]

NoRating == [has |-> FALSE, val |-> 0]

\* google_rating: none, 0.0, 0.5 or 4.5
Ratings == {NoRating} \cup {[has |-> TRUE, val |-> v] : v \in {0, 5, 45}}

Counters == {0, 1, 30000}    \* reddit_score, reddit_num_comments
Sentiments == {-10, 0, 3, 10}
Ages == {-300, 2, 10, 40}
Postings == {<<FALSE, 0>>} \cup {<<TRUE, a>> : a \in Ages}
Analyses == {<<FALSE, 0>>} \cup {<<TRUE, s>> : s \in Sentiments}

\* content items that differ in sentiment and source only
SentimentContents ==
    {Content(0, 0, an[1], an[2], FALSE, 0, src) :
        an \in Analyses, src \in {"reddit", "eater"}}

\* content items without sentiment that differ in engagement and date
ViralContents ==
    {Content(r, c, FALSE, 0, po[1], po[2], "reddit") :
        r \in Counters, c \in Counters, po \in Postings}

\* what scrape_feed hands to scrape_custom_links: no date, or one within
\* days_back = 30
CustomContents == {ct \in ViralContents : ct.hasPosted => ct.age \in 0..30}

\* content items with positive engagement and positive sentiment
PositiveContents ==
    {Content(r, 1, TRUE, s, po[1], po[2], src) :
        r \in {1, 30000}, s \in {3, 10},
        po \in {<<FALSE, 0>>, <<TRUE, 2>>}, src \in {"reddit", "eater"}}

\* content items with or without engagement, sentiment and date
ScoreSetContents ==
    {Content(r, r, an[1], an[2], po[1], po[2], src) :
        r \in {0, 1}, an \in {<<FALSE, 0>>, <<TRUE, 10>>},
        po \in {<<FALSE, 0>>, <<TRUE, 2>>}, src \in {"reddit", "eater"}}

\* content items with no or very high engagement, undated, posted today,
\* earlier, or dated in the future
CapContents ==
    {Content(r, c, FALSE, 0, po[1], po[2], "reddit") :
        r \in {0, 30000}, c \in {0, 30000},
        po \in {<<FALSE, 0>>, <<TRUE, 0>>, <<TRUE, 2>>, <<TRUE, 10>>,
                <<TRUE, -1>>}}

ScoreStart(ratings) ==
    /\ smentions = <<>>
    /\ google_rating \in ratings
    /\ scores = update_restaurant_scores(<<>>, google_rating)
    /\ prevScores = scores
    /\ metrics = CustomMetrics(<<>>)
    /\ origin = <<>>

ScoreIdle == ScoreStart({NoRating})

\* a mention is built from a content item by run_pipeline or by
\* scrape_custom_links.main, joins the list, and the list is scored
ScoreAppend(ct, by) ==
    /\ Len(smentions) < MaxMentions
    /\ smentions' = Append(smentions, IF by = "pipeline" THEN PipeMention(ct)
                                      ELSE CustomMention(ct))
    /\ prevScores' = scores
    /\ scores' = update_restaurant_scores(smentions', google_rating)
    /\ metrics' = CustomMetrics(smentions')
    /\ UNCHANGED <<google_rating, origin>>
    /\ UNCHANGED notScoreVars

\* what a source supplies for one post or article: a posting date or none,
\* a score and a comment count
SourceItems ==
    [dated : {TRUE}, age : {0, 2, 10, 40}, r : {0, 1}, c : {0, 1}]
    \cup [dated : {FALSE}, age : {0}, r : {0, 1}, c : {0, 1}]

\* days between the epoch and now: created_utc defaults to 0
EpochAge == 20000

\* RedditScraper._post_to_content:
\* posted_at=datetime.fromtimestamp(data.get("created_utc", 0))
post_to_content(src) ==
    Content(src.r, src.c, FALSE, 0, TRUE,
            IF src.dated THEN src.age ELSE EpochAge, "reddit")

\* BlogScraper.scrape_blog: posted_at=datetime.now()
scrape_blog(src) == Content(0, 0, FALSE, 0, TRUE, 0, "blogto")

\* ContentScraper.scrape_feed: posted_at=self._parse_date(entry)
scrape_feed(src) == Content(0, 0, FALSE, 0, src.dated, src.age, "blogto")

\* ContentScraper._is_recent with days_back = 30
is_recent(src) == ~src.dated \/ src.age <= 30

\* a source item is scraped, the mention built from it joins the list of
\* its restaurant, and the list is scored
ScrapeAppend(src, ct, by) ==
    /\ Len(smentions) < MaxMentions
    /\ smentions' = Append(smentions, IF by = "pipeline" THEN PipeMention(ct)
                                      ELSE CustomMention(ct))
    /\ origin' = Append(origin, src)
    /\ prevScores' = scores
    /\ scores' = update_restaurant_scores(smentions', google_rating)
    /\ metrics' = CustomMetrics(smentions')
    /\ UNCHANGED google_rating
    /\ UNCHANGED notScoreVars

\* (now - mention.posted_at).days for a mention posted h hours before now:
\* timedelta.days counts whole days, rounding down
DaysOld(h) == h \div 24

\* hours between posting and scoring, inside the 30-day horizon
HoursAgo == {1, 5, 30, 700, 719, 720}

\* run_pipeline scrapes a Reddit post that carries its creation time,
\* h hours before the mention is scored
ScrapeTimed(h, r) ==
    LET src == [dated |-> TRUE, age |-> DaysOld(h), r |-> r, c |-> r,
                hours |-> h]
    IN  ScrapeAppend(src, post_to_content(src), "pipeline")

\* run_pipeline scrapes a Reddit post
ScrapeReddit(src) ==
    /\ src \in SourceItems
    /\ ScrapeAppend(src, post_to_content(src), "pipeline")

\* run_pipeline scrapes a blog page
ScrapeBlog(src) ==
    /\ src.r = 0 /\ src.c = 0
    /\ ScrapeAppend(src, scrape_blog(src), "pipeline")

\* scrape_custom_links.main scrapes a feed entry
ScrapeFeed(src) ==
    /\ src.r = 0 /\ src.c = 0
    /\ is_recent(src)
    /\ ScrapeAppend(src, scrape_feed(src), "custom")

\* arguments of calculate_buzz_score
BuzzInputs ==
    [sentiment : {0, 500, 1000}, viral : {0, 500, 1000}, pro : {0, 5, 10},
     total : {0, 1, 54, 100}, rating : Ratings]

BuzzIdle ==
    /\ buzzIn = [sentiment |-> 500, viral |-> 0, pro |-> 0, total |-> 0,
                 rating |-> NoRating]
    /\ buzzOut = calculate_buzz_score(500, 0, 0, 0, NoRating)

\* one call of calculate_buzz_score
CallBuzzScore(a) ==
    /\ buzzIn' = a
    /\ buzzOut' = calculate_buzz_score(a.sentiment, a.viral, a.pro, a.total,
                                       a.rating)
    /\ UNCHANGED notBuzzVars

(***************************************************************************)
(* shared/models/mention.py: the "before" validators of SocialMention.     *)
(* A string is a sequence of tokens: brackets, comma, blank, a bare word   *)
(* and a quoted word.                                                      *)
(***************************************************************************)
MaxTextLen == 3              \* tokens in a string handed to a list field

Tokens == {"[", "]", ",", " ", "a", "\"a\""}

RECURSIVE Texts(_)
Texts(n) ==
    IF n = 0 THEN {<<>>}
    ELSE Texts(n - 1)
         \cup {Append(t, k) : t \in {u \in Texts(n - 1) : Len(u) = n - 1},
                              k \in Tokens}

NoBlanks(t) == SelectSeq(t, LAMBDA k : k # " ")

\* json.loads accepts t as an array of strings: blanks aside,
\* "[" string ("," string)* "]" or "[" "]"
IsJsonArray(t) ==
    LET u == NoBlanks(t)
        n == Len(u)
    IN  /\ n >= 2
        /\ u[1] = "["
        /\ u[n] = "]"
        /\ n = 2 \/ n % 2 = 1
        /\ \A k \in 2..(n - 1) :
              IF k % 2 = 0 THEN u[k] = "\"a\"" ELSE u[k] = ","

\* json.loads accepts t as a single string: it returns a str, not a list
IsJsonScalar(t) == NoBlanks(t) = <<"\"a\"">>

\* the list json.loads returns for an array; an element is a token sequence
JsonElements(t) ==
    LET u == NoBlanks(t) IN [k \in 1..((Len(u) - 1) \div 2) |-> <<"a">>]

Valid(list) == [ok |-> TRUE, val |-> list]

\* pydantic rejects the value: SocialMention(...) raises ValidationError
Invalid == [ok |-> FALSE, val |-> <<>>]

\* SocialMention.coerce_list followed by the validation of List[str]
coerce_list(v) ==
    CASE v.kind = "none" -> Valid(<<>>)
      [] v.kind = "list" -> Valid(v.val)
      [] v.kind = "str" ->
            IF IsJsonArray(v.val) THEN Valid(JsonElements(v.val))
            ELSE IF IsJsonScalar(v.val) THEN Invalid
            ELSE Valid(<<>>)

\* the raw values of dishes_mentioned
ListInputs ==
    {[field |-> "dishes_mentioned", kind |-> "none", val |-> <<>>]}
    \cup {[field |-> "dishes_mentioned", kind |-> "list", val |-> l] :
             l \in {<<>>, << <<"a">> >>, << <<"a">>, <<"a", " ", "a">> >>}}
    \cup {[field |-> "dishes_mentioned", kind |-> "str", val |-> t] :
             t \in Texts(MaxTextLen)}

\* an ISO-8601 string: wall-clock hour, and no suffix, "Z" or an offset in
\* hours; or a datetime object, or None
DateInputs ==
    {[field |-> "posted_at", kind |-> "none", hour |-> 0, suffix |-> "",
      offset |-> 0]}
    \cup [field : {"posted_at"}, kind : {"str"}, hour : {0, 10, 23},
          suffix : {"", "Z"}, offset : {0}]
    \cup [field : {"posted_at"}, kind : {"str"}, hour : {0, 10, 23},
          suffix : {"offset"}, offset : {-4, 0, 5}]
    \cup [field : {"posted_at"}, kind : {"datetime"}, hour : {0, 10, 23},
          suffix : {""}, offset : {0}]

\* SocialMention.parse_datetime:
\* datetime.fromisoformat(v.replace("Z", "+00:00")) for a string, else v;
\* the result carries a tzinfo exactly when the string had a suffix
parse_datetime(v) ==
    CASE v.kind = "none" -> [has |-> FALSE, hour |-> 0, aware |-> FALSE,
                             offset |-> 0]
      [] v.kind = "datetime" -> [has |-> TRUE, hour |-> v.hour,
                                 aware |-> FALSE, offset |-> 0]
      [] v.kind = "str" -> [has |-> TRUE, hour |-> v.hour,
                            aware |-> v.suffix # "", offset |-> v.offset]

\* now - mention.posted_at with now = datetime.now(): subtracting an aware
\* datetime from a naive one raises TypeError
NowMinus(d) == IF d.aware THEN "TypeError" ELSE "timedelta"

NormIdle ==
    /\ normIn = [field |-> "none"]
    /\ normOut = [field |-> "none"]

\* SocialMention(dishes_mentioned=v, ...)
CoerceList(v) ==
    /\ normIn' = v
    /\ normOut' = coerce_list(v)
    /\ UNCHANGED notNormVars

\* SocialMention(posted_at=v, ...)
ParseDatetime(v) ==
    /\ normIn' = v
    /\ normOut' = parse_datetime(v)
    /\ UNCHANGED notNormVars

(***************************************************************************)
(* Specifications                                                          *)
(***************************************************************************)
NextExtractor ==
    \/ \E d \in 0..MaxDelay : ProcessContent(d)
    \/ CallGroq
    \/ RateLimit
    \/ \E o \in Outcome, d \in 0..MaxCallDur : ApiCall(o, d)
    \/ \E n \in 0..MaxRest : ExtractReturn(n)
    \/ \E p \in BOOLEAN : SentimentReturn(p)

InitExtractor ==
    ExtractorAny /\ StoreIdle /\ CallerIdle /\ CustomIdle /\ PipeIdle
    /\ ConcIdle /\ BatchIdle /\ ScoreIdle /\ BuzzIdle /\ NormIdle

SpecExtractor == InitExtractor /\ [][NextExtractor]_vars

NextStore ==
    \E n \in Names, p \in Pids \cup {None}, t \in 1..MaxTotal,
       fail \in BOOLEAN : CallUpsertRestaurant(n, p, t, fail)

InitStore ==
    ExtractorIdle /\ StoreEmpty /\ CallerIdle /\ CustomIdle /\ PipeIdle
    /\ ConcIdle /\ BatchIdle /\ ScoreIdle /\ BuzzIdle /\ NormIdle

SpecStore == InitStore /\ [][NextStore]_vars

NextCustom ==
    \/ \E n \in Names, p \in Pids \cup {None} : CustomExt(n, p)
    \/ CustomNextItem
    \/ CustomEndGrouping
    \/ \E out \in {"ok", "raise", "nodata"} : CustomStoreRestaurant(out)
    \/ \E fail \in BOOLEAN : CustomStoreMetrics(fail)
    \/ \E fail \in BOOLEAN : CustomStoreMention(fail)

InitCustom ==
    ExtractorIdle /\ StoreEmpty /\ CallerIdle /\ CustomIdle /\ PipeIdle
    /\ ConcIdle /\ BatchIdle /\ ScoreIdle /\ BuzzIdle /\ NormIdle

\* one run of main: the grouping loop, then the store loop
SpecCustom == InitCustom /\ [][NextCustom]_vars

NextGrouping ==
    \/ \E n \in Names, p \in Pids \cup {None} : CustomExt(n, p)
    \/ CustomNextItem
    \/ CustomEndGrouping

InitGrouping ==
    ExtractorIdle /\ StoreEmpty /\ CallerIdle /\ CustomIdle /\ PipeIdle
    /\ ConcIdle /\ BatchIdle /\ ScoreIdle /\ BuzzIdle /\ NormIdle

\* the grouping loop of main alone, up to the start of the store loop
SpecGrouping == InitGrouping /\ [][NextGrouping]_vars

NextCustomTwice ==
    \/ \E n \in Names, p \in Pids \cup {None} : CustomExt(n, p)
    \/ CustomNextItem
    \/ CustomEndGrouping
    \/ \E out \in {"ok", "raise", "nodata"} : CustomStoreRestaurant(out)
    \/ \E fail \in BOOLEAN : CustomStoreMetrics(fail)
    \/ \E fail \in BOOLEAN : CustomStoreMention(fail)
    \/ CustomRunAgain

InitCustomTwice ==
    ExtractorIdle /\ StoreEmpty /\ CallerIdle /\ CustomIdle /\ PipeIdle
    /\ ConcIdle /\ BatchIdle /\ ScoreIdle /\ BuzzIdle /\ NormIdle

\* main with its store loop run a second time over the same queue
SpecCustomTwice == InitCustomTwice /\ [][NextCustomTwice]_vars

NextPipeline ==
    \/ \E n \in Names : PipeExt(n)
    \/ PipeNextItem
    \/ PipeEndExtract
    \/ PipeItemRaise
    \/ \E p \in Pids \cup {None}, fail \in BOOLEAN : PipeStoreRestaurant(p, fail)
    \/ \E p \in Pids \cup {None}, stage \in {"score", "reread"} :
          PipeRestaurantRaise(p, stage)
    \/ \E fail \in BOOLEAN : PipeStoreMention(fail)

InitPipeline ==
    ExtractorIdle /\ StoreEmpty /\ CallerIdle /\ CustomIdle /\ PipeIdle
    /\ ConcIdle /\ BatchIdle /\ ScoreIdle /\ BuzzIdle /\ NormIdle

\* one run of run_pipeline against an empty store
SpecPipeline == InitPipeline /\ [][NextPipeline]_vars

NextPipelineAgain ==
    \/ \E n \in Names : PipeExt(n)
    \/ PipeNextItem
    \/ PipeEndExtract
    \/ PipeItemRaise
    \/ \E p \in Pids \cup {None}, fail \in BOOLEAN : PipeStoreRestaurant(p, fail)
    \/ \E p \in Pids \cup {None}, stage \in {"score", "reread"} :
          PipeRestaurantRaise(p, stage)
    \/ \E fail \in BOOLEAN : PipeStoreMention(fail)
    \/ PipeRunAgain

InitPipelineAgain ==
    ExtractorIdle /\ StoreEmpty /\ CallerIdle /\ CustomIdle /\ PipeIdle
    /\ ConcIdle /\ BatchIdle /\ ScoreIdle /\ BuzzIdle /\ NormIdle

\* run_pipeline run repeatedly against the store its earlier runs left
SpecPipelineAgain == InitPipelineAgain /\ [][NextPipelineAgain]_vars

InitPipelineLive ==
    ExtractorIdle /\ StoreEmpty /\ CallerIdle /\ CustomIdle /\ PipeIdle
    /\ ConcIdle /\ BatchIdle /\ ScoreIdle /\ BuzzIdle /\ NormIdle

\* one run of run_pipeline, which keeps executing until it returns
SpecPipelineLive ==
    InitPipelineLive /\ [][NextPipeline]_vars /\ WF_vars(NextPipeline)

NextConc ==
    \E p \in Runs :
        \/ \E n \in Names, t \in 1..MaxTotal : ConcCall(p, n, t)
        \/ ConcSelect(p)
        \/ ConcWrite(p)

InitConc ==
    ExtractorIdle /\ StoreEmpty /\ CallerIdle /\ CustomIdle /\ PipeIdle
    /\ ConcIdle /\ BatchIdle /\ ScoreIdle /\ BuzzIdle /\ NormIdle

SpecConc == InitConc /\ [][NextConc]_vars

NextBatch ==
    \/ ItemMentionStep
    \/ RowMentionStep

InitBatch ==
    ExtractorIdle /\ StoreIdle /\ CallerIdle /\ CustomIdle /\ PipeIdle
    /\ ConcIdle /\ BatchAny /\ ScoreIdle /\ BuzzIdle /\ NormIdle

\* one batch of mention records converted by one of the two loops
SpecBatch == InitBatch /\ [][NextBatch]_vars

NextSentiment ==
    \/ \E ct \in SentimentContents : ScoreAppend(ct, "pipeline")
    \/ \E ct \in SentimentContents : ScoreAppend(ct, "custom")

InitSentiment ==
    ExtractorIdle /\ StoreIdle /\ CallerIdle /\ CustomIdle /\ PipeIdle
    /\ ConcIdle /\ BatchIdle /\ ScoreStart(Ratings) /\ BuzzIdle /\ NormIdle

\* mention lists that differ in sentiment, built by either program
SpecSentiment == InitSentiment /\ [][NextSentiment]_vars

NextViral ==
    \/ \E ct \in ViralContents : ScoreAppend(ct, "pipeline")

InitViral ==
    ExtractorIdle /\ StoreIdle /\ CallerIdle /\ CustomIdle /\ PipeIdle
    /\ ConcIdle /\ BatchIdle /\ ScoreStart({NoRating}) /\ BuzzIdle /\ NormIdle

\* mention lists that differ in engagement and date
SpecViral == InitViral /\ [][NextViral]_vars

NextTrending ==
    \/ \E ct \in ViralContents : ScoreAppend(ct, "pipeline")
    \/ \E ct \in CustomContents : ScoreAppend(ct, "custom")

InitTrending ==
    ExtractorIdle /\ StoreIdle /\ CallerIdle /\ CustomIdle /\ PipeIdle
    /\ ConcIdle /\ BatchIdle /\ ScoreStart({NoRating}) /\ BuzzIdle /\ NormIdle

\* mention lists of either program that differ in engagement and date
SpecTrending == InitTrending /\ [][NextTrending]_vars

NextScoring ==
    \/ \E ct \in PositiveContents : ScoreAppend(ct, "pipeline")

InitScoring ==
    ExtractorIdle /\ StoreIdle /\ CallerIdle /\ CustomIdle /\ PipeIdle
    /\ ConcIdle /\ BatchIdle /\ ScoreStart(Ratings) /\ BuzzIdle /\ NormIdle

\* lists of mentions with positive engagement and positive sentiment
SpecScoring == InitScoring /\ [][NextScoring]_vars

NextBuzz ==
    \/ \E a \in BuzzInputs : CallBuzzScore(a)

InitBuzz ==
    ExtractorIdle /\ StoreIdle /\ CallerIdle /\ CustomIdle /\ PipeIdle
    /\ ConcIdle /\ BatchIdle /\ ScoreIdle /\ BuzzIdle /\ NormIdle

\* calls of calculate_buzz_score
SpecBuzz == InitBuzz /\ [][NextBuzz]_vars

NextScoreSets ==
    \/ \E ct \in ScoreSetContents : ScoreAppend(ct, "pipeline")
    \/ \E ct \in ScoreSetContents : ScoreAppend(ct, "custom")

InitScoreSets ==
    ExtractorIdle /\ StoreIdle /\ CallerIdle /\ CustomIdle /\ PipeIdle
    /\ ConcIdle /\ BatchIdle /\ ScoreStart(Ratings) /\ BuzzIdle /\ NormIdle

\* the score sets either program computes for a list of mentions
SpecScoreSets == InitScoreSets /\ [][NextScoreSets]_vars

NextDecay ==
    \/ \E h \in HoursAgo, r \in {0, 1} : ScrapeTimed(h, r)

InitDecay ==
    ExtractorIdle /\ StoreIdle /\ CallerIdle /\ CustomIdle /\ PipeIdle
    /\ ConcIdle /\ BatchIdle /\ ScoreStart({NoRating}) /\ BuzzIdle /\ NormIdle

\* mentions of Reddit posts created at different hours before now
SpecDecay == InitDecay /\ [][NextDecay]_vars

NextNorm ==
    \/ \E v \in ListInputs : CoerceList(v)
    \/ \E v \in DateInputs : ParseDatetime(v)

InitNorm ==
    ExtractorIdle /\ StoreIdle /\ CallerIdle /\ CustomIdle /\ PipeIdle
    /\ ConcIdle /\ BatchIdle /\ ScoreIdle /\ BuzzIdle /\ NormIdle

\* SocialMention built from raw field values
SpecNorm == InitNorm /\ [][NextNorm]_vars

NextCap ==
    \/ \E ct \in CapContents : ScoreAppend(ct, "pipeline")

InitCap ==
    ExtractorIdle /\ StoreIdle /\ CallerIdle /\ CustomIdle /\ PipeIdle
    /\ ConcIdle /\ BatchIdle /\ ScoreStart({NoRating}) /\ BuzzIdle /\ NormIdle

\* mention lists of run_pipeline up to the highest engagement
SpecCap == InitCap /\ [][NextCap]_vars

NextRecency ==
    \/ \E src \in SourceItems : ScrapeReddit(src)
    \/ \E src \in SourceItems : ScrapeBlog(src)
    \/ \E src \in SourceItems : ScrapeFeed(src)

InitRecency ==
    ExtractorIdle /\ StoreIdle /\ CallerIdle /\ CustomIdle /\ PipeIdle
    /\ ConcIdle /\ BatchIdle /\ ScoreStart({NoRating}) /\ BuzzIdle /\ NormIdle

\* mentions scraped from dated and undated sources by the three scrapers
SpecRecency == InitRecency /\ [][NextRecency]_vars

(***************************************************************************)
(* Properties                                                              *)
(***************************************************************************)
\* API calls started by the current _call_groq invocation
ApiCallsMade == Len(outcomes) + (IF gpc = "api" THEN 1 ELSE 0)

AllFailed == \A i \in 1..Len(outcomes) : outcomes[i] # "content"

\* C1: one _call_groq invocation (retries = 3) makes at most 3 API calls,
\* each attempt that does not return consumes one unit of the one attempt
\* counter whatever the failure was (so the loop ends), it never raises, and
\* it returns None or the empty content when every attempt failed.
C1_RetryBudget ==
    /\ ApiCallsMade <= DefaultRetries
    /\ gpc \in {"loop", "api"} =>
          attempt < DefaultRetries /\ Len(outcomes) = attempt
    /\ gresult # "Raised"
    /\ gpc = "ret" /\ AllFailed => gresult \in {None, "Empty"}
    /\ gpc = "ret" /\ hasClient /\ AllFailed => Len(outcomes) = DefaultRetries

C1_Witness ==
    /\ gpc = "ret"
    /\ outcomes = <<"empty", "exception", "empty">>
    /\ gresult = "Empty"

\* C2 as claimed: the time from the end of one API call to the start of
\* the next API call of the same extractor is at least min_interval.
C2_EndToStart ==
    gpc = "api" /\ prevEnd # NoTime => callStart - prevEnd >= min_interval

\* C2, amended: the time from the start of one API call to the start of the
\* next API call of the same extractor is at least min_interval.
C2_StartToStart ==
    gpc = "api" /\ prevStart # NoTime => callStart - prevStart >= min_interval

C2_Witness ==
    /\ gpc = "api"
    /\ prevStart # NoTime
    /\ callStart - prevStart = min_interval
    /\ callStart - prevEnd < min_interval

\* C3: analyze_sentiment is invoked only after extract_restaurants has
\* returned, and only if it returned at least one restaurant; with zero
\* restaurants process_content returns ([], None) without a sentiment call.
C3_SentimentShortCircuit ==
    /\ ppc = "extract" => sentInvoked = 0
    /\ sentInvoked > 0 => nRest > 0 /\ ppc \in {"sentiment", "done"}
    /\ ppc = "done" /\ nRest = 0 => sentInvoked = 0 /\ sentiment = None

C3_Witness ==
    /\ ppc = "done"
    /\ gresult = "Content"
    /\ nRest = 0
    /\ sentInvoked = 0

\* rows a step adds to the restaurants table
NewRows == (Len(restaurants) + 1)..Len(restaurants')

\* C4 as claimed: no call inserts a row whose google_place_id or whose name
\* is already present in the restaurants table.
C4_NeverSecondRow ==
    [][\A i \in NewRows : \A j \in 1..Len(restaurants) :
          /\ restaurants[j].name # restaurants'[i].name
          /\ restaurants'[i].pid # None =>
                restaurants[j].pid # restaurants'[i].pid]_vars

OneRowPerKey ==
    \A i, j \in 1..Len(restaurants) :
        i # j =>
          /\ restaurants[i].pid # None => restaurants[i].pid # restaurants[j].pid
          /\ restaurants[i].pid = None /\ restaurants[j].pid = None =>
                restaurants[i].name # restaurants[j].name

\* C4, amended: a call with a google_place_id never inserts a row for a
\* place id already present, a call without one never inserts a row for a
\* name already present, and the table keeps one row per place id and one
\* row per name among the rows without a place id.
C4_KeyedUpsert ==
    /\ []OneRowPerKey
    /\ [][\A i \in NewRows : \A j \in 1..Len(restaurants) :
            IF restaurants'[i].pid # None
            THEN restaurants[j].pid # restaurants'[i].pid
            ELSE restaurants[j].name # restaurants'[i].name]_vars

\* a call found its key present and wrote without adding a row
C4_Witness ==
    /\ lastCall.ok
    /\ lastCall.before = Len(restaurants)
    /\ Len(restaurants) >= 2
    /\ \E i \in 1..Len(restaurants) :
         restaurants[i].name = lastCall.name /\ restaurants[i].pid = None
    /\ \E i \in 1..Len(restaurants) : restaurants[i].pid # None

\* C5: running the store step of main a second time over the same queue,
\* with no store call failing in transit, leaves the three tables as the
\* first run left them.
C5_StoreTwiceSameState ==
    cpc = "done" /\ pass >= 2 /\ failures = 0 =>
        <<restaurants, social_mentions, restaurant_metrics>> = snapshot

\* C7: every metrics and mention write of main carries the id the
\* restaurant upsert of its group returned, and is made after that upsert;
\* a group whose restaurant upsert raised or returned no data gets no
\* write, and the loop still visits every later group.
C7_WritesCarryGroupId ==
    /\ \A w \in written :
          /\ w.g <= Len(resIds)
          /\ resIds[w.g] # NoId
          /\ w.rid = resIds[w.g]
          /\ restaurants[w.rid] = CustomRow(queue[w.g])
    /\ cpc \in {"metrics", "mentions"} =>
          Len(resIds) = gi /\ res_id = resIds[gi] /\ res_id # NoId
    /\ cpc = "store" => Len(resIds) = gi - 1
    /\ cpc = "done" => Len(resIds) = Len(queue)

\* a group whose restaurant upsert failed is followed by a stored group
C7_Witness ==
    /\ cpc = "done"
    /\ \E g \in 1..Len(resIds) :
         /\ resIds[g] = NoId
         /\ \E w \in written : w.g > g /\ w.kind = "metrics"
         /\ \E w \in written : w.g > g /\ w.kind = "mention"

\* the groups and positions that hold the mention of triple i
HoldersOf(i) ==
    {gj \in (1..Len(queue)) \X (1..Len(triples)) :
        /\ gj[2] <= Len(queue[gj[1]].mentions)
        /\ queue[gj[1]].mentions[gj[2]].seq = i}

\* C9: each mention is in exactly one group, whose key is the place_id when
\* enrichment found a place and the extracted name otherwise; mentions that
\* enriched to the same place_id share a group whatever their names; and a
\* group lists its mentions in processing order.
C9_GroupedByPlaceOrName ==
    /\ \A i \in 1..Len(triples) :
          /\ Cardinality(HoldersOf(i)) = 1
          /\ \A gj \in HoldersOf(i) :
                /\ queue[gj[1]].key = IF triples[i].pid # None
                                      THEN triples[i].pid ELSE triples[i].name
                /\ queue[gj[1]].mentions[gj[2]].name = triples[i].name
                /\ queue[gj[1]].mentions[gj[2]].url = triples[i].url
    /\ \A i, j \in 1..Len(triples) :
          triples[i].pid # None /\ triples[i].pid = triples[j].pid =>
              \A a \in HoldersOf(i), b \in HoldersOf(j) : a[1] = b[1]
    /\ \A g \in 1..Len(queue) : \A a, b \in 1..Len(queue[g].mentions) :
          a < b => queue[g].mentions[a].seq < queue[g].mentions[b].seq
    /\ \A g, h \in 1..Len(queue) : g # h => queue[g].key # queue[h].key

\* two names merged under one place id, next to a group keyed by a name
C9_Witness ==
    /\ cpc # "group"
    /\ \E g \in 1..Len(queue) :
         /\ queue[g].key \in Pids
         /\ Len(queue[g].mentions) = 2
         /\ queue[g].mentions[1].name # queue[g].mentions[2].name
    /\ \E g \in 1..Len(queue) : queue[g].key \in Names

\* C6: when two runs interleave their upsert_restaurant calls, the table
\* never holds two rows without a place id for one name, and no call for a
\* restaurant without a place id returns False.
C6_SafeInterleaving ==
    /\ \A i, j \in 1..Len(restaurants) :
          i # j /\ restaurants[i].pid = None /\ restaurants[j].pid = None =>
              restaurants[i].name # restaurants[j].name
    /\ lost = {}

\* C8: every mention run_pipeline writes after a successful
\* upsert_restaurant carries the id of a row that this call wrote.
C8_MentionOnWrittenRow ==
    \A a \in attached : a.rid \in a.wrote

RECURSIVE MentionsUpTo(_, _)
\* mentions of the first g groups of this run whose name enriched to p
MentionsUpTo(g, p) ==
    IF g = 0 THEN 0
    ELSE MentionsUpTo(g - 1, p)
         + (IF enriched[g] = p THEN Len(restaurant_mentions[g].mentions)
            ELSE 0)

\* C10: after a run without transit failures, the row of a place id that
\* names of this run enriched to carries total_mentions counted over the
\* mentions of all those names.
C10_MergedByPlace ==
    rpc = "done" /\ pfailures = 0 =>
        \A p \in Pids : \A i \in RowsByPid(restaurants, p) :
            (\E g \in 1..Len(enriched) : enriched[g] = p) =>
                restaurants[i].total = MentionsUpTo(Len(enriched), p)

\* C11: no upsert_restaurant call replaces a stored non-empty address by the
\* empty placeholder, nor a stored google_place_id by none.
C11_NoClobber ==
    [][\A i \in 1..Len(restaurants) :
          /\ restaurants[i].addr # "" => restaurants'[i].addr # ""
          /\ restaurants[i].pid # None => restaurants'[i].pid # None]_vars

\* the two loops of run_pipeline contain every exception raised inside them
LoopsContainErrors ==
    /\ rpc \in {"extract", "store", "mentions", "done"}
    /\ errors = Cardinality(iraised) + Cardinality(rraised)
    /\ rpc # "extract" => ritem = MaxItems
    /\ rpc = "done" =>
          /\ Len(enriched) = Len(restaurant_mentions)
          /\ rg = Len(restaurant_mentions) + 1

\* C12: an exception raised while one content item or one restaurant is
\* processed adds one entry to stats.errors and leaves run_pipeline inside
\* its loop: every later item and every later restaurant is still visited,
\* and run_pipeline reaches its return statement.
C12_ErrorsDoNotStopRun == []LoopsContainErrors /\ <>(rpc = "done")

\* an item raised and a later item still gave a mention; a restaurant
\* raised and a later restaurant still had a mention stored
C12_Witness ==
    /\ rpc = "done"
    /\ \E i \in iraised : \E g \in 1..Len(restaurant_mentions) :
          \E k \in 1..Len(restaurant_mentions[g].mentions) :
             restaurant_mentions[g].mentions[k].url > i
    /\ \E g \in rraised : \E a \in attached : a.g > g

\* C13: when upsert_restaurant returns False for a restaurant, the step
\* raises nothing (stats.errors keeps its length), stats.stored keeps its
\* value, the three tables are left as they were, the loop stands at the next
\* restaurant, and no mention write is ever made for that restaurant.
C13_RejectedWriteSkipped ==
    /\ [](\A a \in attached : a.g \notin rrejected)
    /\ [][rrejected' # rrejected =>
            /\ errors' = errors
            /\ stored' = stored
            /\ restaurants' = restaurants
            /\ social_mentions' = social_mentions
            /\ restaurant_metrics' = restaurant_metrics
            /\ rg' = rg + 1
            /\ rpc' \in {"store", "done"}]_vars

\* a restaurant's write was rejected and a later restaurant was stored with
\* a mention
C13_Witness ==
    /\ rpc = "done"
    /\ stored >= 1
    /\ \E g \in rrejected : \E a \in attached : a.g > g

\* the indices of the well-formed records of a batch, in order
WellFormed(b) == SelectSeq([i \in 1..Len(b) |-> i], LAMBDA i : b[i])

\* C14: when a loop has finished with a batch, it has produced a mention for
\* every well-formed record: only the malformed ones are missing.
C14_OnlyMalformedDropped ==
    bpc = "done" => built = WellFormed(batch)

\* mentions of the list posted less than 7 days ago
RecentCount ==
    Cardinality({i \in 1..Len(smentions) :
                    smentions[i].hasPosted /\ smentions[i].age < 7})

\* C15: is_trending is true only when at least 2 of the mentions were posted
\* within the last 7 days, in update_restaurant_scores and in the metrics
\* scrape_custom_links.main builds for the mentions it made.
C15_TrendingHasRecent ==
    /\ scores.trending => RecentCount >= 2
    /\ (\A i \in 1..Len(smentions) : smentions[i].by = "custom") =>
          (metrics.trending => RecentCount >= 2)

\* C16: a mention built from a content item without sentiment result has no
\* sentiment value, and the sentiment score of a list is the score of the
\* list without its mentions that have no sentiment value.
C16_NoSentimentStaysNone ==
    /\ \A i \in 1..Len(smentions) :
          ~smentions[i].analysed => ~smentions[i].hasSent
    /\ scores.sentiment =
          calculate_sentiment_score(SelectSeq(smentions, LAMBDA m : m.hasSent))

\* C17: the sentiment score lies in [0, 10], and is 5.0 for the empty list
\* and for a list in which no mention has a sentiment value.
C17_SentimentRange ==
    /\ scores.sentiment \in 0..1000
    /\ (\A i \in 1..Len(smentions) : ~smentions[i].hasSent) =>
          scores.sentiment = 500

\* a list with a mention without sentiment value and a credible, fully
\* positive one: the score is at the top of the range
C17_Witness ==
    /\ Len(smentions) = 2
    /\ \E i \in 1..2 : ~smentions[i].hasSent
    /\ \E i \in 1..2 : smentions[i].hasSent /\ smentions[i].sent = 10
                         /\ smentions[i].src = "eater"
    /\ scores.sentiment = 1000

C19_MorePositiveNeverLowers ==
    smentions # <<>> =>
        LET m == smentions[Len(smentions)] IN
          (m.r > 0 /\ m.c > 0 /\ m.hasSent /\ m.sent > 0) =>
              scores.buzz >= prevScores.buzz

\* argument records that differ from a in one input only, which is larger
RaisedInputs(a) ==
    {b \in BuzzInputs :
        \/ b.sentiment > a.sentiment /\ b = [a EXCEPT !.sentiment = b.sentiment]
        \/ b.viral > a.viral /\ b = [a EXCEPT !.viral = b.viral]
        \/ b.pro > a.pro /\ b = [a EXCEPT !.pro = b.pro]
        \/ b.total > a.total /\ b = [a EXCEPT !.total = b.total]
        \/ /\ a.rating.has /\ b.rating.has /\ b.rating.val > a.rating.val
           /\ b = [a EXCEPT !.rating = b.rating]}

\* C20: the buzz score lies in [0, 20] and does not decrease when one of
\* sentiment_score, viral_score, pro_score, total_mentions or google_rating
\* (0 included) is raised with the others held fixed.
C20_BuzzMonotone ==
    /\ buzzOut \in 0..200
    /\ \A b \in RaisedInputs(buzzIn) :
          calculate_buzz_score(b.sentiment, b.viral, b.pro, b.total, b.rating)
             >= buzzOut

\* C21: a mention whose source supplied no timestamp has a recency
\* contribution not greater than that of the same mention with any real
\* posting date.
C21_UndatedNeverFresh ==
    \A i \in 1..Len(smentions) :
        ~origin[i].dated =>
            \A a \in {0, 2, 10, 40} :
                RecencyComponent(smentions[i])
                    <= RecencyComponent([smentions[i] EXCEPT
                                            !.hasPosted = TRUE, !.age = a])

\* C22: in every score set the programs compute, total_mentions is the
\* number of mentions in the list the other scores of the set were
\* computed from, and the buzz score was computed with that number.
C22_TotalMatchesList ==
    /\ scores.total = Len(smentions)
    /\ metrics.total = Len(smentions)
    /\ scores.sentiment = calculate_sentiment_score(smentions)
    /\ scores.viral = calculate_viral_score(smentions)
    /\ scores.pro = calculate_pro_score(smentions)
    /\ scores.buzz = calculate_buzz_score(scores.sentiment, scores.viral,
                                          scores.pro, Len(smentions),
                                          google_rating)

C22_Witness ==
    /\ Len(smentions) = 2
    /\ scores.total = 2
    /\ metrics.total = 2
    /\ \E i \in 1..2 : ~smentions[i].hasSent
    /\ \E i \in 1..2 : smentions[i].by = "custom"

\* C23: of two mentions identical except for posted_at, both posted within
\* the 30 days before now, the one posted farther from now contributes a
\* strictly smaller value to the viral score, and no contribution is below
\* the one at the decay floor.
C23_OlderStrictlySmaller ==
    \A i, j \in 1..Len(smentions) :
        /\ (/\ smentions[i] = [smentions[j] EXCEPT !.age = smentions[i].age]
            /\ origin[i].hours > origin[j].hours)
           => MentionViral(smentions[i]) < MentionViral(smentions[j])
        /\ MentionViral(smentions[i])
              >= MentionViral([smentions[i] EXCEPT !.age = 30])

\* C24: within one _call_groq invocation the wait before a retry that
\* follows an empty payload grows with the attempt number, and the wait
\* after a transport error is 5 seconds.
C24_EmptyBackoffGrows ==
    /\ \A i, j \in 1..Len(backoffs) :
          (i < j /\ backoffs[i].after = "empty" /\ backoffs[j].after = "empty")
             => backoffs[j].slept > backoffs[i].slept
    /\ \A i \in 1..Len(backoffs) :
          backoffs[i].after = "exception" => backoffs[i].slept = 5

\* C30: over any sequence of _call_groq invocations on one extractor and
\* any outcomes, the start times of two consecutive API calls are at least
\* min_interval apart, and last_request_time is the start time of the most
\* recent call.
C30_StartsSpaced ==
    /\ callStart # NoTime => last_request_time = callStart
    /\ gpc = "api" /\ prevStart # NoTime
          => callStart - prevStart >= min_interval
    /\ gpc = "loop" /\ callStart # NoTime
          => now + SleepTime(now, last_request_time) - callStart
                >= min_interval

\* a retry after an exception and a call for the next content item, both
\* started after the rate limiter slept
C30_Witness ==
    /\ items = 2
    /\ gpc = "api"
    /\ Len(outcomes) >= 1
    /\ outcomes[1] = "exception"
    /\ prevStart # NoTime
    /\ callStart - prevStart = min_interval
    /\ last_request_time = callStart

\* C25: when a group received several extraction results, the vibe, cuisine
\* tags, recommended dishes and price hint of its persisted identity are
\* those of the extraction result processed last for the group, in
\* run_pipeline and in scrape_custom_links.main.
C25_LastExtractionWins ==
    /\ rpc \in {"store", "mentions", "done"} =>
          \A g \in 1..Len(restaurant_mentions) :
              PipeIdentityExt(restaurant_mentions[g])
                 = restaurant_mentions[g].mentions[
                       Len(restaurant_mentions[g].mentions)].url
    /\ cpc \in {"store", "metrics", "mentions", "done"} =>
          \A g \in 1..Len(queue) :
              CustomIdentityExt(queue[g])
                 = queue[g].mentions[Len(queue[g].mentions)].seq

RECURSIVE CommaParts(_)
\* t.split(",")
CommaParts(t) ==
    IF \A k \in 1..Len(t) : t[k] # "," THEN <<t>>
    ELSE LET c == CHOOSE k \in 1..Len(t) :
                     t[k] = "," /\ \A j \in 1..(k - 1) : t[j] # ","
         IN  <<SubSeq(t, 1, c - 1)>> \o CommaParts(SubSeq(t, c + 1, Len(t)))

RECURSIVE Strip(_)
\* s.strip()
Strip(t) ==
    IF t # <<>> /\ Head(t) = " " THEN Strip(Tail(t))
    ELSE IF t # <<>> /\ t[Len(t)] = " " THEN Strip(SubSeq(t, 1, Len(t) - 1))
    ELSE t

\* C26: dishes_mentioned is normalized for every input shape: None gives
\* the empty list, a JSON-array-shaped string the parsed list, any other
\* string its comma-separated parts with surrounding whitespace trimmed
\* (empty parts left out), and a list is kept as is.
C26_ListNormalized ==
    normIn.field = "dishes_mentioned" =>
        normOut =
            Valid(CASE normIn.kind = "none" -> <<>>
                    [] normIn.kind = "list" -> normIn.val
                    [] normIn.kind = "str" ->
                          IF IsJsonArray(normIn.val)
                          THEN JsonElements(normIn.val)
                          ELSE SelectSeq(
                                 [k \in 1..Len(CommaParts(normIn.val)) |->
                                     Strip(CommaParts(normIn.val)[k])],
                                 LAMBDA part : part # <<>>))

\* C27: every posted_at the normalizer makes from an ISO-8601 string, with
\* or without a Z or offset suffix, is a timezone-naive UTC datetime, so
\* now - posted_at never fails for a normalized mention.
C27_PostedAtNaiveUtc ==
    normIn.field = "posted_at" /\ normIn.kind = "str" =>
        /\ ~normOut.aware
        /\ normOut.hour = (normIn.hour - normIn.offset) % 24
        /\ NowMinus(normOut) = "timedelta"

NoneInFuture == \A i \in 1..Len(smentions) :
                    smentions[i].hasPosted => smentions[i].age >= 0

C29_MentionRowsMatchTotal ==
    rpc = "done" /\ pfailures = 0 /\ errors = 0 /\ rrejected = {} =>
        \A i \in 1..Len(restaurants) :
            Cardinality({m \in social_mentions : m.rid = i})
               = restaurants[i].total

====
